---- MODULE Spec2Model ----
(***************************************************************************)
(* Lowering of groupby-UDF reductions (cudf/core/udf/groupby_lowering.py). *)
(*                                                                         *)
(* The module under study registers, at import time, one numba lowering    *)
(* per (attribute, GroupType) pair, and each lowering, when numba routes   *)
(* a call site to it, resolves a forward declaration in                    *)
(* call_cuda_functions and emits the call.  The model keeps both tables:   *)
(*   lowerings            what cuda_lower(...) registered (lines 155-169)  *)
(*   call_cuda_functions  the forward declarations (imported, line 15)     *)
(* and one record per compilation request with the instructions emitted    *)
(* into its builder.                                                       *)
(***************************************************************************)
EXTENDS Integers, Sequences, FiniteSets, TLC

VARIABLES
    import_pos,           \* position of the module-level `for ty in ...` loop
    lowerings,            \* numba's registry: lowering key -> implementation
    call_cuda_functions,  \* function name -> type_key -> forward declaration
    heap,                 \* address -> contents of the buffer stored there
    writes,               \* number of buffer writes done by the buffers' owner
    units                 \* compilation request -> its state

vars == <<import_pos, lowerings, call_cuda_functions, heap, writes, units>>

----------------------------------------------------------------------------
(* Bounds of the model. *)

MaxSites == 2     \* call sites lowered per compilation request
MaxSize == 2      \* largest `size` argument given to the Group constructor
MaxWrites == 1    \* buffer writes by the owner of the buffers

----------------------------------------------------------------------------
(* Types. *)

AllTypes == {"int64", "float64", "int32"}

\* groupby_typing.SUPPORTED_GROUPBY_NUMBA_TYPES (imported at line 12): the
\* Type Registry, "initially two numeric types".
SUPPORTED_GROUPBY_NUMBA_TYPES == <<"int64", "float64">>

TypeRegistry == {SUPPORTED_GROUPBY_NUMBA_TYPES[i] : i \in DOMAIN SUPPORTED_GROUPBY_NUMBA_TYPES}

\* groupby_typing.index_default_type (imported at line 16): the single
\* supported index element type; lines 119 and 164 spell it types.int64.
index_default_type == "int64"

\* types.int64 as written at lines 119, 164 and 167.
types_int64 == "int64"

CPointer(ty) == <<"CPointer", ty>>

\* groupby_typing.GroupType (imported at line 14): a numba type parameterised
\* by the element type and the index type, with the attributes this file
\* reads (group_scalar_type, index_type, group_data_type, group_index_type,
\* size_type).
GroupType2(ty, idx) ==
    [group_scalar_type |-> ty,
     index_type        |-> idx,
     group_data_type   |-> CPointer(ty),
     group_index_type  |-> CPointer(idx),
     size_type         |-> types_int64]

\* GroupType(ty) with the index type left to its default.
GroupType1(ty) == GroupType2(ty, index_default_type)

----------------------------------------------------------------------------
(* Operations. *)

PlainOps == {"max", "min", "sum", "mean", "std", "var"}
IdxOps == {"idxmax", "idxmin"}
TrivialOps == {"size", "count"}
ReductionOps == PlainOps \cup IdxOps
AllOps == ReductionOps \cup TrivialOps

----------------------------------------------------------------------------
(* Buffers and arrays.  An array is a managed wrapper whose `data` member  *)
(* is the address of its backing storage; the storage itself lives in      *)
(* heap and belongs to the caller.                                         *)

Addresses == {101, 102, 103}

Arrays ==
    {[name |-> "a_int64",   dtype |-> "int64",   data |-> 101],
     [name |-> "a_float64", dtype |-> "float64", data |-> 102],
     [name |-> "a_int32",   dtype |-> "int32",   data |-> 103]}

BufferValues == {0, 1}

----------------------------------------------------------------------------
(* Emitted instructions and the outcome of lowering one call site. *)

Instr(ins, operand) == [ins |-> ins, operand |-> operand]

NoError == [kind |-> "none", names |-> {}]

\* KeyError(key): what a failed dict subscript raises; it carries the key.
KeyErrorOfTypeKey(type_key) == [kind |-> "KeyError", names |-> {type_key[1], type_key[2]}]
KeyErrorOfName(function) == [kind |-> "KeyError", names |-> {function}]

\* The lowering returned normally with `value`, having emitted `emitted`
\* and subscripted call_cuda_functions with the keys `lookups`; `table` is
\* call_cuda_functions as the lowering leaves it (a subscript reads only).
Returned(value, emitted, lookups) ==
    [ok |-> TRUE, value |-> value, emitted |-> emitted, lookups |-> lookups,
     error |-> NoError, table |-> call_cuda_functions]

\* The lowering raised `error` after emitting `emitted`.
Raised(error, emitted, lookups) ==
    [ok |-> FALSE, value |-> [kind |-> "none", of |-> 0], emitted |-> emitted,
     lookups |-> lookups, error |-> error, table |-> call_cuda_functions]

\* nb_signature(retty, *argtys)
nb_signature(retty, argtys) == [return_type |-> retty, args |-> argtys]

----------------------------------------------------------------------------
(* call_cuda_functions as groupby_typing leaves it when it is imported:    *)
(* for every registered type one forward declaration per reduction, each   *)
(* its own external routine; idxmax/idxmin take the index pointer too and  *)
(* are keyed with types.int64 as their return type (line 119).             *)

DeclaredReturn(op, t) == IF op \in IdxOps THEN types_int64 ELSE t

ForwardDeclaration(op, t) ==
    [entry_point |-> <<op, t>>,
     return_type |-> DeclaredReturn(op, t),
     parameter_types |->
        IF op \in IdxOps
        THEN <<CPointer(t), CPointer(index_default_type), types_int64>>
        ELSE <<CPointer(t), types_int64>>]

InitialCallCudaFunctions ==
    [op \in ReductionOps |->
        [k \in {<<DeclaredReturn(op, t), t>> : t \in TypeRegistry} |->
            ForwardDeclaration(op, k[2])]]

----------------------------------------------------------------------------
(* The lowerings.  `sig` is the call site's signature: sig.return_type and *)
(* sig.recvr (sig.args[0], the GroupType); `grp` is the struct value.      *)

\* Faulty variants of lowering_function, each with one plausible slip; the
\* properties below are required to tell them from the real one.

\* On a missing type key, falls back to a forward declaration of the same
\* element type under another return type.
lowering_function_fallback(sig, grp, function) ==
    LET grp_type == sig.recvr
        group_dataty == grp_type.group_data_type
        pre == <<Instr("alloca", group_dataty), Instr("store", grp.group_data)>>
        type_key == <<sig.return_type, grp_type.group_scalar_type>>
        others == {k \in DOMAIN call_cuda_functions[function] :
                        k[2] = grp_type.group_scalar_type}
        used == IF type_key \in DOMAIN call_cuda_functions[function] \/ others = {}
                THEN type_key ELSE CHOOSE k \in others : TRUE
    IN  IF used \notin DOMAIN call_cuda_functions[function]
        THEN Raised(KeyErrorOfTypeKey(type_key), pre, <<type_key>>)
        ELSE LET call == [func |-> call_cuda_functions[function][used],
                          sig  |-> nb_signature(sig.return_type,
                                                <<group_dataty, grp_type.size_type>>),
                          args |-> <<grp.group_data, grp.size>>]
             IN  Returned([kind |-> "call", of |-> call],
                          pre \o <<Instr("load", grp.group_data), Instr("call", call)>>,
                          <<type_key>>)

\* Looks the key up with dict.get and returns without a call when it is
\* missing.
lowering_function_skip_miss(sig, grp, function) ==
    LET grp_type == sig.recvr
        group_dataty == grp_type.group_data_type
        pre == <<Instr("alloca", group_dataty), Instr("store", grp.group_data)>>
        type_key == <<sig.return_type, grp_type.group_scalar_type>>
    IN  IF type_key \notin DOMAIN call_cuda_functions[function]
        THEN Returned([kind |-> "none", of |-> 0], pre, <<type_key>>)
        ELSE LET call == [func |-> call_cuda_functions[function][type_key],
                          sig  |-> nb_signature(sig.return_type,
                                                <<group_dataty, grp_type.size_type>>),
                          args |-> <<grp.group_data, grp.size>>]
             IN  Returned([kind |-> "call", of |-> call],
                          pre \o <<Instr("load", grp.group_data), Instr("call", call)>>,
                          <<type_key>>)

\* Passes (size, data pointer) instead of (data pointer, size).
lowering_function_swapped_args(sig, grp, function) ==
    LET grp_type == sig.recvr
        group_dataty == grp_type.group_data_type
        pre == <<Instr("alloca", group_dataty), Instr("store", grp.group_data)>>
        type_key == <<sig.return_type, grp_type.group_scalar_type>>
    IN  IF type_key \notin DOMAIN call_cuda_functions[function]
        THEN Raised(KeyErrorOfTypeKey(type_key), pre, <<type_key>>)
        ELSE LET call == [func |-> call_cuda_functions[function][type_key],
                          sig  |-> nb_signature(sig.return_type,
                                                <<group_dataty, grp_type.size_type>>),
                          args |-> <<grp.size, grp.group_data>>]
             IN  Returned([kind |-> "call", of |-> call],
                          pre \o <<Instr("load", grp.group_data), Instr("call", call)>>,
                          <<type_key>>)

\* Looks the key up with setdefault, storing a new forward declaration in
\* call_cuda_functions when it is missing.
lowering_function_setdefault(sig, grp, function) ==
    LET grp_type == sig.recvr
        group_dataty == grp_type.group_data_type
        pre == <<Instr("alloca", group_dataty), Instr("store", grp.group_data)>>
        type_key == <<sig.return_type, grp_type.group_scalar_type>>
        inner == call_cuda_functions[function]
        stored == [k \in DOMAIN inner \cup {type_key} |->
                      IF k \in DOMAIN inner THEN inner[k]
                      ELSE ForwardDeclaration(function, grp_type.group_scalar_type)]
        call == [func |-> stored[type_key],
                 sig  |-> nb_signature(sig.return_type,
                                       <<group_dataty, grp_type.size_type>>),
                 args |-> <<grp.group_data, grp.size>>]
    IN  [ok |-> TRUE, value |-> [kind |-> "call", of |-> call],
         emitted |-> pre \o <<Instr("load", grp.group_data), Instr("call", call)>>,
         lookups |-> <<type_key>>, error |-> NoError,
         table |-> [call_cuda_functions EXCEPT ![function] = stored]]

\* lowering_function(context, builder, sig, args, function)
lowering_function(sig, grp, function) ==
    LET grp_type == sig.recvr
        group_dataty == grp_type.group_data_type
        pre == <<Instr("alloca", group_dataty), Instr("store", grp.group_data)>>
        type_key == <<sig.return_type, grp_type.group_scalar_type>>
    IN  IF function \notin DOMAIN call_cuda_functions
        THEN Raised(KeyErrorOfName(function), pre, <<>>)
        ELSE IF type_key \notin DOMAIN call_cuda_functions[function]
        THEN Raised(KeyErrorOfTypeKey(type_key), pre, <<type_key>>)
        ELSE LET func == call_cuda_functions[function][type_key]
                 call == [func |-> func,
                          sig  |-> nb_signature(sig.return_type,
                                                <<group_dataty, grp_type.size_type>>),
                          args |-> <<grp.group_data, grp.size>>]
             IN  Returned([kind |-> "call", of |-> call],
                          pre \o <<Instr("load", grp.group_data), Instr("call", call)>>,
                          <<type_key>>)

\* cuda_Group_idx_max_or_min(context, builder, sig, args, function)
cuda_Group_idx_max_or_min(sig, grp, function) ==
    LET grp_type == sig.recvr
    IN  IF grp_type.index_type # index_default_type
        THEN Raised([kind |-> "TypeError", names |-> {index_default_type}], <<>>, <<>>)
        ELSE
        LET group_dataty == grp_type.group_data_type
            index_dataty == grp_type.group_index_type
            pre == <<Instr("alloca", group_dataty), Instr("store", grp.group_data),
                     Instr("alloca", index_dataty), Instr("store", grp.index)>>
            type_key == <<types_int64, grp_type.group_scalar_type>>
        IN  IF function \notin DOMAIN call_cuda_functions
            THEN Raised(KeyErrorOfName(function), pre, <<>>)
            ELSE IF type_key \notin DOMAIN call_cuda_functions[function]
            THEN Raised(KeyErrorOfTypeKey(type_key), pre, <<type_key>>)
            ELSE LET func == call_cuda_functions[function][type_key]
                     call == [func |-> func,
                              sig  |-> nb_signature(sig.return_type,
                                          <<group_dataty, index_dataty, grp_type.size_type>>),
                              args |-> <<grp.group_data, grp.index, grp.size>>]
                 IN  Returned([kind |-> "call", of |-> call],
                              pre \o <<Instr("load", grp.group_data),
                                       Instr("load", grp.index),
                                       Instr("call", call)>>,
                              <<type_key>>)

\* A faulty variant of cuda_Group_size that treats size as one more
\* reduction, to be found in call_cuda_functions.
cuda_Group_size_via_table(sig, grp) == lowering_function(sig, grp, "size")

\* cuda_Group_size(context, builder, sig, args)
cuda_Group_size(sig, grp) == Returned([kind |-> "field", of |-> grp.size], <<>>, <<>>)

\* cuda_Group_count(context, builder, sig, args)
cuda_Group_count(sig, grp) == Returned([kind |-> "field", of |-> grp.size], <<>>, <<>>)

\* The partial applications of lines 130-138, and the two plain functions.
Partial(impl, function) == [impl |-> impl, function |-> function]

cuda_Group_max == Partial("lowering_function", "max")
cuda_Group_min_as_max == Partial("lowering_function", "max")   \* faulty: bound to "max"
cuda_Group_min == Partial("lowering_function", "min")
cuda_Group_sum == Partial("lowering_function", "sum")
cuda_Group_mean == Partial("lowering_function", "mean")
cuda_Group_std == Partial("lowering_function", "std")
cuda_Group_var == Partial("lowering_function", "var")
cuda_Group_idxmax_as_idxmin == Partial("cuda_Group_idx_max_or_min", "idxmin")   \* faulty
cuda_Group_idxmax == Partial("cuda_Group_idx_max_or_min", "idxmax")
cuda_Group_idxmin == Partial("cuda_Group_idx_max_or_min", "idxmin")
cuda_Group_size_impl == Partial("cuda_Group_size", "")
cuda_Group_count_impl == Partial("cuda_Group_count", "")

\* Calling a registered implementation.
CallImpl(impl, sig, grp) ==
    CASE impl.impl = "lowering_function" -> lowering_function(sig, grp, impl.function)
      [] impl.impl = "cuda_Group_idx_max_or_min" ->
            cuda_Group_idx_max_or_min(sig, grp, impl.function)
      [] impl.impl = "cuda_Group_size" -> cuda_Group_size(sig, grp)
      [] impl.impl = "cuda_Group_count" -> cuda_Group_count(sig, grp)

----------------------------------------------------------------------------
(* numba's lowering registry.  cuda_lower(attr, recvr)(impl) records impl  *)
(* for calls of attribute `attr` on a receiver of exactly the type         *)
(* `recvr`; a call site whose (attr, receiver type) was never registered   *)
(* has no lowering and numba raises NotImplementedError for it.            *)

LoweringKey(attr, recvr) == [attr |-> attr, recvr |-> recvr]

cuda_lower(registry, attr, recvr, impl) ==
    [k \in DOMAIN registry \cup {LoweringKey(attr, recvr)} |->
        IF k = LoweringKey(attr, recvr) THEN impl ELSE registry[k]]

EmptyRegistry == [k \in {} |-> Partial("", "")]

\* A faulty variant of the loop that registers every type there is.
LoopTypesAll == <<"int64", "float64", "int32">>

\* The sequence the module-level loop iterates over (line 155).
LoopTypes == SUPPORTED_GROUPBY_NUMBA_TYPES

\* One iteration of the loop body, lines 156-169, in source order.
RegisterType(registry, ty) ==
    LET r1  == cuda_lower(registry, "max", GroupType1(ty), cuda_Group_max)
        r2  == cuda_lower(r1, "min", GroupType1(ty), cuda_Group_min)
        r3  == cuda_lower(r2, "sum", GroupType1(ty), cuda_Group_sum)
        r4  == cuda_lower(r3, "count", GroupType1(ty), cuda_Group_count_impl)
        r5  == cuda_lower(r4, "size", GroupType1(ty), cuda_Group_size_impl)
        r6  == cuda_lower(r5, "mean", GroupType1(ty), cuda_Group_mean)
        r7  == cuda_lower(r6, "std", GroupType1(ty), cuda_Group_std)
        r8  == cuda_lower(r7, "var", GroupType1(ty), cuda_Group_var)
        r9  == cuda_lower(r8, "idxmax", GroupType2(ty, types_int64), cuda_Group_idxmax)
        r10 == cuda_lower(r9, "idxmin", GroupType2(ty, types_int64), cuda_Group_idxmin)
    IN  r10

\* Lowering the call site `grp.<op>()` whose typed signature is `sig`:
\* numba picks the implementation registered for (op, receiver type) and
\* calls it; with none registered the lowering fails.
invoke_reduction(op, sig, grp) ==
    IF LoweringKey(op, sig.recvr) \in DOMAIN lowerings
    THEN CallImpl(lowerings[LoweringKey(op, sig.recvr)], sig, grp)
    ELSE Raised([kind |-> "NotImplementedError",
                 names |-> {op, sig.recvr.group_scalar_type, sig.recvr.index_type}],
                <<>>, <<>>)

\* A faulty variant of group_constructor that points the group at a copy of
\* the data buffer, stored elsewhere.
group_constructor_copy(group_data, size, index) ==
    [group_data |-> CHOOSE a \in Addresses : a # group_data.data /\ a # index.data,
     index |-> index.data, size |-> size]

\* group_constructor(context, builder, sig, args): the struct filled from
\* the two arrays' data members and the size, returned by value.
group_constructor(group_data, size, index) ==
    [group_data |-> group_data.data, index |-> index.data, size |-> size]

----------------------------------------------------------------------------
(* Compilation requests. *)

Units == {"u1", "u2"}

NullArray == [name |-> "", dtype |-> "", data |-> 0]

IdleUnit ==
    [status   |-> "idle",
     grp_type |-> GroupType2("", ""),
     grp      |-> [group_data |-> 0, index |-> 0, size |-> 0],
     args     |-> [data |-> NullArray, size |-> 0, index |-> NullArray],
     builder  |-> <<>>,
     sites    |-> <<>>]

\* The instructions one call site emitted, tagged with the site's number.
Tagged(emitted, n) ==
    [i \in DOMAIN emitted |->
        [ins |-> emitted[i].ins, operand |-> emitted[i].operand, site |-> n]]

\* What becomes of the request once a call site's lowering has returned or
\* raised: nothing in this file catches, so a raise ends the compilation.
StatusAfter(outcome) == IF outcome.ok THEN "lowering" ELSE "failed"

Init ==
    /\ import_pos = 1
    /\ lowerings = EmptyRegistry
    /\ call_cuda_functions = InitialCallCudaFunctions
    /\ heap \in [Addresses -> {0}]
    /\ writes = 0
    /\ units = [u \in Units |-> IdleUnit]

Imported == import_pos > Len(LoopTypes)

\* One iteration of `for ty in SUPPORTED_GROUPBY_NUMBA_TYPES:`.
RegisterLowerings ==
    /\ ~Imported
    /\ lowerings' = RegisterType(lowerings, LoopTypes[import_pos])
    /\ import_pos' = import_pos + 1
    /\ UNCHANGED <<call_cuda_functions, heap, writes, units>>

\* The grouping driver's call of the Group constructor for request u.
ConstructGroup(u, data, size, index) ==
    /\ Imported
    /\ units[u].status = "idle"
    /\ units' = [units EXCEPT ![u] =
                    [status   |-> "lowering",
                     grp_type |-> GroupType2(data.dtype, index.dtype),
                     grp      |-> group_constructor(data, size, index),
                     args     |-> [data |-> data, size |-> size, index |-> index],
                     builder  |-> <<>>,
                     sites    |-> <<>>]]
    /\ UNCHANGED <<import_pos, lowerings, call_cuda_functions, heap, writes>>

\* Lowering the next call site `grp.<op>()` of request u's function, typed
\* with return type retty.
LowerCallSite(u, op, retty) ==
    /\ Imported
    /\ units[u].status = "lowering"
    /\ Len(units[u].sites) < MaxSites
    /\ LET sig == [return_type |-> retty, recvr |-> units[u].grp_type]
           outcome == invoke_reduction(op, sig, units[u].grp)
           n == Len(units[u].sites) + 1
       IN /\ units' = [units EXCEPT ![u] =
                [@ EXCEPT !.status = StatusAfter(outcome),
                          !.builder = @ \o Tagged(outcome.emitted, n),
                          !.sites = Append(@, [op |-> op, retty |-> retty,
                                               ok |-> outcome.ok,
                                               value |-> outcome.value,
                                               lookups |-> outcome.lookups,
                                               error |-> outcome.error])]]
          /\ call_cuda_functions' = outcome.table
    /\ UNCHANGED <<import_pos, lowerings, heap, writes>>

\* The body of request u's function has been lowered to its end.
FinishCompile(u) ==
    /\ units[u].status = "lowering"
    /\ units' = [units EXCEPT ![u].status = "compiled"]
    /\ UNCHANGED <<import_pos, lowerings, call_cuda_functions, heap, writes>>

\* The owner of a buffer writes to it.
WriteBuffer(a, v) ==
    /\ writes < MaxWrites
    /\ heap[a] # v
    /\ heap' = [heap EXCEPT ![a] = v]
    /\ writes' = writes + 1
    /\ UNCHANGED <<import_pos, lowerings, call_cuda_functions, units>>

\* The return types a call site may be typed with: for max..var the typing
\* layer's choice, for idxmax/idxmin the group's index type, for size/count
\* the size type.
ReturnTypes(u, op) ==
    IF op \in PlainOps THEN AllTypes
    ELSE IF op \in IdxOps THEN {units[u].grp_type.index_type}
    ELSE {units[u].grp_type.size_type}

Sizes == 1..MaxSize

\* One compilation request at a time.
Next ==
    \/ RegisterLowerings
    \/ \E data \in Arrays, size \in Sizes, index \in Arrays :
            ConstructGroup("u1", data, size, index)
    \/ \E op \in AllOps : \E retty \in ReturnTypes("u1", op) :
            LowerCallSite("u1", op, retty)
    \/ FinishCompile("u1")
    \/ \E a \in Addresses, v \in BufferValues : WriteBuffer(a, v)

Spec == Init /\ [][Next]_vars

\* Several compilation requests in progress at once, their steps
\* interleaved; each request's call sites are drawn from one operation per
\* kind of lowering.
InterleavedOps == {"max", "size", "idxmax"}

NextInterleaved ==
    \/ RegisterLowerings
    \/ \E u \in Units, data \in Arrays, size \in Sizes, index \in Arrays :
            ConstructGroup(u, data, size, index)
    \/ \E u \in Units, op \in InterleavedOps : \E retty \in ReturnTypes(u, op) :
            LowerCallSite(u, op, retty)
    \/ \E u \in Units : FinishCompile(u)

SpecInterleaved == Init /\ [][NextInterleaved]_vars

----------------------------------------------------------------------------
(* Vocabulary of the properties. *)

Constructed(u) == units[u].status # "idle"

SiteNumbers(u) == DOMAIN units[u].sites

\* The external calls that call site n of request u emitted.
SiteCalls(u, n) ==
    {i \in DOMAIN units[u].builder :
        /\ units[u].builder[i].ins = "call"
        /\ units[u].builder[i].site = n}

\* A group type for which the import-time loop registers lowerings.
HasLowerings(grp_type) ==
    /\ grp_type.group_scalar_type \in TypeRegistry
    /\ grp_type.index_type = index_default_type

\* A failure to resolve a call site in a table: no lowering registered for
\* it, or no forward declaration under its type key.
IsMiss(error) == error.kind \in {"NotImplementedError", "KeyError"}

\* The site returned the group's size field itself.
ReturnsSizeField(u, n) ==
    /\ units[u].sites[n].ok
    /\ units[u].sites[n].value.kind = "field"
    /\ units[u].sites[n].value.of = units[u].grp.size

----------------------------------------------------------------------------
\* C1 (as stated): for a group of any element type, registered or not,
\* lowering size and count succeeds, returns g.size verbatim, subscripts
\* call_cuda_functions not at all and emits no external call.
C1_SizeCountAnyType ==
    \A u \in Units : \A n \in SiteNumbers(u) :
        units[u].sites[n].op \in TrivialOps =>
            /\ ReturnsSizeField(u, n)
            /\ units[u].sites[n].lookups = <<>>
            /\ SiteCalls(u, n) = {}

\* C1 (amended): for a group whose element type is registered and whose
\* index type is the default one, lowering size and count succeeds and
\* returns g.size verbatim; for any other group no lowering is registered
\* and it fails with numba's NotImplementedError; in both cases
\* call_cuda_functions is not subscripted and no external call is emitted.
C1_SizeCountRegisteredType ==
    \A u \in Units : \A n \in SiteNumbers(u) :
        units[u].sites[n].op \in TrivialOps =>
            /\ HasLowerings(units[u].grp_type) => ReturnsSizeField(u, n)
            /\ ~HasLowerings(units[u].grp_type) =>
                    /\ ~units[u].sites[n].ok
                    /\ units[u].sites[n].error.kind = "NotImplementedError"
            /\ units[u].sites[n].lookups = <<>>
            /\ SiteCalls(u, n) = {}

\* A size or count site on a float64 group of size MaxSize returned MaxSize.
C1_Witness ==
    \E u \in Units : \E n \in SiteNumbers(u) :
        /\ units[u].sites[n].op \in TrivialOps
        /\ units[u].grp_type.group_scalar_type = "float64"
        /\ units[u].args.size = MaxSize
        /\ ReturnsSizeField(u, n)
        /\ units[u].sites[n].value.of = MaxSize

----------------------------------------------------------------------------
\* C2 (as stated): idxmax and idxmin succeed only on a group whose index
\* type is the default one; on any other group the lowering fails with the
\* TypeError naming the default index type, not with a miss, before
\* call_cuda_functions is subscripted and before any call is emitted.
C2_IdxTypeMismatchNamed ==
    \A u \in Units : \A n \in SiteNumbers(u) :
        units[u].sites[n].op \in IdxOps =>
            /\ units[u].sites[n].ok =>
                    units[u].grp_type.index_type = index_default_type
            /\ units[u].grp_type.index_type # index_default_type =>
                    /\ ~units[u].sites[n].ok
                    /\ units[u].sites[n].error.kind = "TypeError"
                    /\ index_default_type \in units[u].sites[n].error.names
                    /\ units[u].sites[n].lookups = <<>>
                    /\ SiteCalls(u, n) = {}

----------------------------------------------------------------------------
\* Call site n of request u subscripted call_cuda_functions[op] with a type
\* key that is not there.
DispatchKeyAbsent(u, n) ==
    /\ units[u].sites[n].op \in ReductionOps
    /\ units[u].sites[n].lookups # <<>>
    /\ units[u].sites[n].lookups[1] \notin
            DOMAIN call_cuda_functions[units[u].sites[n].op]

\* The failure ended the compilation at this site and left it without a call.
AbortedAt(u, n) ==
    /\ ~units[u].sites[n].ok
    /\ units[u].status = "failed"
    /\ n = Len(units[u].sites)
    /\ SiteCalls(u, n) = {}

----------------------------------------------------------------------------
\* What the call site `g.<op>()`, typed retty, on a group of element type t
\* with the default index type resolves to.
Resolve(op, t, retty) ==
    invoke_reduction(op, [return_type |-> retty, recvr |-> GroupType1(t)],
                     [group_data |-> 101, index |-> 101, size |-> 1])

\* The (op, t, forward declaration) triples that resolve, over all return
\* types a call site may be typed with.
Resolutions ==
    LET attempts == {<<y[1], y[2], Resolve(y[1], y[2], y[3])>> :
                        y \in PlainOps \X TypeRegistry \X AllTypes}
    IN  {<<x[1], x[2], x[3].value.of.func>> :
            x \in {a \in attempts : a[3].ok /\ a[3].value.kind = "call"}}

\* C4: once the module is imported, for every registered element type t and
\* every op of max, min, sum, mean, std, var the pair (op, t) resolves to a
\* forward declaration, and two distinct pairs never resolve to the same one.
C4_PairsResolveUniquely ==
    Imported =>
        LET R == Resolutions
        IN  /\ \A op \in PlainOps, t \in TypeRegistry :
                    \E r \in R : r[1] = op /\ r[2] = t
            /\ \A r1 \in R, r2 \in R :
                    r1[3] = r2[3] => (r1[1] = r2[1] /\ r1[2] = r2[2])

\* A request lowered max and then min on one group, to two different routines.
C4_Witness ==
    /\ Imported
    /\ \E u \in Units :
        /\ Len(units[u].sites) = 2
        /\ units[u].sites[1].op = "max" /\ units[u].sites[1].ok
        /\ units[u].sites[2].op = "min" /\ units[u].sites[2].ok
        /\ units[u].sites[1].value.of.func # units[u].sites[2].value.of.func

----------------------------------------------------------------------------
\* C5: the constructed group's size is the size argument and its two
\* pointers are the backing addresses of the two arrays, so what is read
\* through the group is what the source buffers hold now, also after the
\* owner has written to them.
C5_ConstructedGroupAliasesBuffers ==
    \A u \in Units :
        Constructed(u) =>
            /\ units[u].grp.size = units[u].args.size
            /\ units[u].grp.group_data = units[u].args.data.data
            /\ units[u].grp.index = units[u].args.index.data
            /\ heap[units[u].grp.group_data] = heap[units[u].args.data.data]
            /\ heap[units[u].grp.index] = heap[units[u].args.index.data]

\* A group of size MaxSize over a data buffer that has been written to,
\* with a different index buffer that has not.
C5_Witness ==
    \E u \in Units :
        /\ Constructed(u)
        /\ units[u].args.size = MaxSize
        /\ units[u].grp.size = MaxSize
        /\ units[u].grp.group_data # units[u].grp.index
        /\ heap[units[u].grp.group_data] = 1
        /\ heap[units[u].grp.index] = 0

----------------------------------------------------------------------------
\* C6: a failure is raised at the call site being lowered and ends the
\* compilation there, so a compiled function has every call site lowered
\* successfully, each max..idxmin site with exactly one external call, and a
\* failed site is always the last site of a failed compilation.
C6_AllOrNothing ==
    \A u \in Units :
        /\ units[u].status = "compiled" =>
                \A n \in SiteNumbers(u) :
                    /\ units[u].sites[n].ok
                    /\ units[u].sites[n].op \in ReductionOps =>
                            Cardinality(SiteCalls(u, n)) = 1
        /\ \A n \in SiteNumbers(u) : ~units[u].sites[n].ok => AbortedAt(u, n)
        /\ units[u].status = "failed" =>
                /\ units[u].sites # <<>>
                /\ ~units[u].sites[Len(units[u].sites)].ok

\* A compilation that bound its first call site and failed at its second.
C6_Witness ==
    \E u \in Units :
        /\ units[u].status = "failed"
        /\ Len(units[u].sites) = 2
        /\ units[u].sites[1].op \in ReductionOps
        /\ Cardinality(SiteCalls(u, 1)) = 1
        /\ ~units[u].sites[2].ok

----------------------------------------------------------------------------
\* The number of external calls in request u's builder.
CallCount(u) ==
    Cardinality({i \in DOMAIN units[u].builder : units[u].builder[i].ins = "call"})

ReductionSites(u) == {n \in SiteNumbers(u) : units[u].sites[n].op \in ReductionOps}

\* C7: a compiled function holds exactly one external call per max..idxmin
\* call site, to the forward declaration of that operation and the group's
\* element type, and none for a size or count site, which returns the
\* constructor's size argument (so max, min on a float64 group gives two
\* calls, to the float64 max and min routines, and size alone gives none).
C7_OneCallPerReductionSite ==
    \A u \in Units :
        units[u].status = "compiled" =>
            /\ CallCount(u) = Cardinality(ReductionSites(u))
            /\ \A n \in SiteNumbers(u) :
                /\ units[u].sites[n].op \in ReductionOps =>
                    /\ Cardinality(SiteCalls(u, n)) = 1
                    /\ \A i \in SiteCalls(u, n) :
                        /\ units[u].builder[i].operand.func.entry_point =
                                <<units[u].sites[n].op, units[u].grp_type.group_scalar_type>>
                        /\ units[u].builder[i].operand.func =
                                call_cuda_functions[units[u].sites[n].op]
                                    [units[u].sites[n].lookups[1]]
                /\ units[u].sites[n].op \in TrivialOps =>
                    /\ SiteCalls(u, n) = {}
                    /\ ReturnsSizeField(u, n)
                    /\ units[u].sites[n].value.of = units[u].args.size

\* f(g) = g.max() - g.min() compiled over a float64 group: two calls.
C7_Witness ==
    \E u \in Units :
        /\ units[u].status = "compiled"
        /\ units[u].grp_type.group_scalar_type = "float64"
        /\ Len(units[u].sites) = 2
        /\ units[u].sites[1].op = "max"
        /\ units[u].sites[2].op = "min"
        /\ CallCount(u) = 2

----------------------------------------------------------------------------
\* The arguments a call for `op` on request u's group must carry.
ExpectedArgs(u, op) ==
    IF op \in IdxOps
    THEN <<units[u].grp.group_data, units[u].grp.index, units[u].grp.size>>
    ELSE <<units[u].grp.group_data, units[u].grp.size>>

\* C8: a call site that hits emits one call, to the forward declaration
\* found under its key, with (data pointer, size) for max..var and (data
\* pointer, index pointer, size) for idxmax and idxmin, these being the
\* group's own fields, under the parameter and return types the forward
\* declaration declares; the call's result is the site's result.
C8_CallMarshalling ==
    \A u \in Units : \A n \in SiteNumbers(u) :
        (units[u].sites[n].op \in ReductionOps /\ units[u].sites[n].ok) =>
            /\ Cardinality(SiteCalls(u, n)) = 1
            /\ \A i \in SiteCalls(u, n) :
                LET call == units[u].builder[i].operand
                IN  /\ call.func = call_cuda_functions[units[u].sites[n].op]
                                        [units[u].sites[n].lookups[1]]
                    /\ call.args = ExpectedArgs(u, units[u].sites[n].op)
                    /\ call.sig.args = call.func.parameter_types
                    /\ call.sig.return_type = call.func.return_type
                    /\ units[u].sites[n].value.kind = "call"
                    /\ units[u].sites[n].value.of = call

\* idxmax hit on a group whose data pointer, index pointer and size are
\* three different numbers.
C8_Witness ==
    \E u \in Units : \E n \in SiteNumbers(u) :
        /\ units[u].sites[n].op = "idxmax"
        /\ units[u].sites[n].ok
        /\ Cardinality({units[u].grp.group_data, units[u].grp.index,
                        units[u].grp.size}) = 3
        /\ SiteCalls(u, n) # {}

----------------------------------------------------------------------------
\* C9: once the module is imported, no step (a construction, a lowering
\* that returns or raises, the end of a compilation, of any request)
\* changes the lowering registry, call_cuda_functions, or a field or the
\* type of a group that is already constructed.
C9_TablesAndGroupsFrozen ==
    [][Imported =>
        /\ lowerings' = lowerings
        /\ call_cuda_functions' = call_cuda_functions
        /\ \A u \in Units :
            Constructed(u) =>
                /\ units'[u].grp = units[u].grp
                /\ units'[u].grp_type = units[u].grp_type]_vars

\* Two requests in progress at once: one has failed at a call site, the
\* other has bound one.
C9_Witness ==
    /\ Imported
    /\ units["u1"].status = "failed"
    /\ units["u2"].status = "lowering"
    /\ units["u2"].sites # <<>>
    /\ SiteCalls("u2", 1) # {}

----------------------------------------------------------------------------
\* C10: once the module is imported, an element type outside the Type
\* Registry has no lowering registered and no forward declaration for any
\* operation, and every lowering of max..idxmin on a group of that type
\* ends in a miss, with no call emitted.
C10_UnregisteredTypeMisses ==
    Imported =>
        \A t \in AllTypes \ TypeRegistry :
            /\ \A k \in DOMAIN lowerings : k.recvr.group_scalar_type # t
            /\ \A op \in DOMAIN call_cuda_functions :
                    \A k \in DOMAIN call_cuda_functions[op] : k[2] # t
            /\ \A u \in Units : \A n \in SiteNumbers(u) :
                    (/\ units[u].grp_type.group_scalar_type = t
                     /\ units[u].sites[n].op \in ReductionOps) =>
                        /\ AbortedAt(u, n)
                        /\ IsMiss(units[u].sites[n].error)

\* sum on an int32 group ended in a miss.
C10_Witness ==
    \E u \in Units : \E n \in SiteNumbers(u) :
        /\ units[u].grp_type.group_scalar_type = "int32"
        /\ units[u].grp_type.index_type = index_default_type
        /\ units[u].sites[n].op = "sum"
        /\ IsMiss(units[u].sites[n].error)

====
